---- MODULE Spec2Model ----
(***************************************************************************)
(* Model of src/app.py: a Flask application that serves a gas-price API    *)
(* over one pyodbc connection per request context, plus a single-page      *)
(* application bundle from the static folder "dist".                       *)
(*                                                                         *)
(* Spec     the WSGI application: one HTTP request is routed through the   *)
(*          URL map, its view function runs, and the application context   *)
(*          is torn down (close_db).                                       *)
(* SpecCtx  the connection manager used from inside one request context:   *)
(*          get_db called any number of times, the view function           *)
(*          store_data (which no URL rule binds) run as the view, then     *)
(*          the teardown.                                                  *)
(***************************************************************************)
EXTENDS Integers, Sequences, FiniteSets, TLC

VARIABLES env, gas_fee, GAS, phase, req, ctx, resp

vars == <<env, gas_fee, GAS, phase, req, ctx, resp>>

(***************************************************************************)
(* Bounds of the model.                                                    *)
(***************************************************************************)
\* largest number of rows in the gas_fee table
MaxFeeRows == 2
\* largest number of elements of a JSON array body
MaxItems == 2
\* largest number of rows the GAS table grows to
MaxGas == 2
\* largest number of get_db calls inside one request context (SpecCtx)
MaxCalls == 3
\* volumen and meses values run over 1..FeeGrid
FeeGrid == 2

(***************************************************************************)
(* Python values.                                                          *)
(***************************************************************************)
\* Python's None where an integer or a connection handle is expected;
\* connection handles are 1, 2, ...
None == 0

\* os.getenv of a variable that is not set
Absent == "<absent>"

Range(s) == {s[i] : i \in 1..Len(s)}

Min(a, b) == IF a < b THEN a ELSE b

\* The characters of every string whose characters the program looks at:
\* path segments and query values.
Chars(s) ==
    CASE s = "api" -> <<"a", "p", "i">>
      [] s = "v1" -> <<"v", "1">>
      [] s = "gas" -> <<"g", "a", "s">>
      [] s = "fee" -> <<"f", "e", "e">>
      [] s = "health" -> <<"h", "e", "a", "l", "t", "h">>
      [] s = "HH" -> <<"H", "H">>
      [] s = "EP" -> <<"E", "P">>
      [] s = "HSC" -> <<"H", "S", "C">>
      [] s = "SCL" -> <<"S", "C", "L">>
      [] s = "WAH" -> <<"W", "A", "H">>
      [] s = "BOGUS" -> <<"B", "O", "G", "U", "S">>
      [] s = "hh" -> <<"h", "h">>
      [] s = "d1" -> <<"d", "1">>
      [] s = "1" -> <<"1">>
      [] s = "2" -> <<"2">>
      [] s = "3" -> <<"3">>
      [] s = "4" -> <<"4">>
      [] s = "12" -> <<"1", "2">>
      [] s = "abc" -> <<"a", "b", "c">>
      [] s = "dashboard" -> <<"d", "a", "s", "h", "b", "o", "a", "r", "d">>
      [] s = "reports" -> <<"r", "e", "p", "o", "r", "t", "s">>
      [] s = "unknown" -> <<"u", "n", "k", "n", "o", "w", "n">>
      [] s = "about" -> <<"a", "b", "o", "u", "t">>
      [] s = "v1.2" -> <<"v", "1", ".", "2">>
      [] s = "app.js" -> <<"a", "p", "p", ".", "j", "s">>
      [] s = "missing.js" -> <<"m", "i", "s", "s", "i", "n", "g", ".", "j", "s">>
      [] s = "index.html" -> <<"i", "n", "d", "e", "x", ".", "h", "t", "m", "l">>
      [] s = "" -> <<>>
      [] s = Absent -> <<>>

DigitValue(c) ==
    CASE c = "0" -> 0 [] c = "1" -> 1 [] c = "2" -> 2 [] c = "3" -> 3
      [] c = "4" -> 4 [] c = "5" -> 5 [] c = "6" -> 6 [] c = "7" -> 7
      [] c = "8" -> 8 [] c = "9" -> 9 [] OTHER -> -1

\* the strings int() and the int URL converter accept: one or more digits
IsDigits(s) ==
    /\ Len(Chars(s)) > 0
    /\ \A i \in 1..Len(Chars(s)) : DigitValue(Chars(s)[i]) >= 0

RECURSIVE DigitsValue(_, _)
DigitsValue(cs, n) ==
    IF n = 0 THEN 0 ELSE DigitsValue(cs, n - 1) * 10 + DigitValue(cs[n])

\* int(s) for a string of digits
IntOf(s) == DigitsValue(Chars(s), Len(Chars(s)))

(***************************************************************************)
(* Configuration: the four secrets and the connection descriptor.          *)
(***************************************************************************)
EnvNames == {"SERVER", "DATABASE", "USERNAME", "PASSWORD"}

\* str() of a value inside an f-string: None is formatted as the text "None"
Format(v) == IF v = Absent THEN "None" ELSE v

\* CONN_STR as the sequence of the f-string's literal and formatted pieces
CONN_STR ==
    << "DRIVER=ODBC Driver 17 for SQL Server;SERVER=", Format(env["SERVER"]),
       ";DATABASE=", Format(env["DATABASE"]),
       ";UID=", Format(env["USERNAME"]),
       ";PWD=", Format(env["PASSWORD"]) >>

\* Python truth value of a string: false exactly for the empty string
Truthy(pieces) == \E i \in 1..Len(pieces) : pieces[i] # ""

\* none of the four secrets was in the environment at startup
Unconfigured == \A n \in EnvNames : env[n] = Absent

\* pyodbc.connect(conn_str): succeeds when the server answers and the
\* descriptor names a real server, database and login; raises pyodbc.Error
\* otherwise.  up is whether the server answers this attempt.
pyodbc_connect(conn_str, up) == up /\ "None" \notin Range(conn_str)

(***************************************************************************)
(* The request context.  g is flask.g as a dictionary; conns[h] is the     *)
(* state of the connection with handle h that this context opened,         *)
(* closeCalls[h] the number of close() calls made on it, closes the number  *)
(* of close() calls made on anything, rets the values get_db returned, in  *)
(* call order.                                                             *)
(***************************************************************************)
EmptyG == [k \in {} |-> None]

NewCtx ==
    [ g |-> EmptyG, connectCalls |-> 0, conns |-> <<>>, closeCalls |-> <<>>,
      rets |-> <<>>, cursors |-> 0, executes |-> 0, inserts |-> 0,
      commits |-> 0, closes |-> 0, closeErrors |-> 0 ]

\* get_db with the failed attempt not remembered: g.db is left unset
get_db_retry(c, up) ==
    IF ~Truthy(CONN_STR)
    THEN [c EXCEPT !.rets = Append(@, None)]
    ELSE IF "db" \notin DOMAIN c.g \/ c.g["db"] = None
         THEN IF pyodbc_connect(CONN_STR, up)
              THEN [c EXCEPT !.g = [k \in {"db"} |-> Len(c.conns) + 1],
                             !.connectCalls = @ + 1,
                             !.conns = Append(@, "open"),
                             !.closeCalls = Append(@, 0),
                             !.rets = Append(@, Len(c.conns) + 1)]
              ELSE [c EXCEPT !.connectCalls = @ + 1,
                             !.rets = Append(@, None)]
         ELSE [c EXCEPT !.rets = Append(@, c.g["db"])]

\* get_db(): the context after the call; the value returned is the last
\* element of rets
get_db(c, up) ==
    IF ~Truthy(CONN_STR)
    THEN [c EXCEPT !.rets = Append(@, None)]
    ELSE IF "db" \notin DOMAIN c.g
         THEN IF pyodbc_connect(CONN_STR, up)
              THEN [c EXCEPT !.g = [k \in {"db"} |-> Len(c.conns) + 1],
                             !.connectCalls = @ + 1,
                             !.conns = Append(@, "open"),
                             !.closeCalls = Append(@, 0),
                             !.rets = Append(@, Len(c.conns) + 1)]
              ELSE [c EXCEPT !.g = [k \in {"db"} |-> None],
                             !.connectCalls = @ + 1,
                             !.rets = Append(@, None)]
         ELSE [c EXCEPT !.rets = Append(@, c.g["db"])]

\* the value the latest get_db call returned
Ret(c) == c.rets[Len(c.rets)]

\* h.close(): closes an open connection; on a connection that is already
\* closed pyodbc raises ProgrammingError; None has no close()
conn_close(c, h) ==
    IF h = None
    THEN [c EXCEPT !.closes = @ + 1, !.closeErrors = @ + 1]
    ELSE [c EXCEPT !.closes = @ + 1,
                   !.closeCalls[h] = @ + 1,
                   !.conns[h] = "closed",
                   !.closeErrors = IF c.conns[h] = "closed" THEN @ + 1 ELSE @]

\* close_db(error): g.pop("db", None), and close() when it is a connection
close_db(c) ==
    LET db == IF "db" \in DOMAIN c.g THEN c.g["db"] ELSE None
        popped == [c EXCEPT !.g = EmptyG]
    IN  IF db # None THEN conn_close(popped, db) ELSE popped

(***************************************************************************)
(* The URL map.  A path is the sequence of its segments: "/" is << >>,     *)
(* "/api/health" is <<"api", "health">>.                                   *)
(***************************************************************************)
S(s) == [conv |-> "static", s |-> s]
Conv(kind, name) == [conv |-> kind, s |-> name]

\* the rules in registration order: Flask adds the static rule when the
\* application is constructed, the decorators add the others in file order
url_map ==
    << [pattern |-> <<Conv("path", "filename")>>, methods |-> {"GET"},
        endpoint |-> "static"],
       [pattern |-> <<S("api"), S("v1"), S("gas")>>, methods |-> {"GET"},
        endpoint |-> "get_data_by_date_and_fuente"],
       [pattern |-> <<S("api"), S("v1"), S("gas"), Conv("string", "indice")>>,
        methods |-> {"GET"}, endpoint |-> "get_matching_dates"],
       [pattern |-> <<S("api"), S("v1"), S("gas"), Conv("string", "indice"),
                      Conv("string", "trade_date")>>,
        methods |-> {"GET"}, endpoint |-> "get_gas_data"],
       [pattern |-> <<S("api"), S("v1"), S("gas")>>, methods |-> {"GET", "POST"},
        endpoint |-> "get_all_fees"],
       [pattern |-> <<S("api"), S("v1"), S("gas"), S("fee"), Conv("int", "meses")>>,
        methods |-> {"GET"}, endpoint |-> "get_gas_fee"],
       [pattern |-> <<S("api"), S("health")>>, methods |-> {"GET"},
        endpoint |-> "health_check"],
       [pattern |-> <<>>, methods |-> {"GET"}, endpoint |-> "serve_index"] >>

\* one segment against one part of a rule
MatchPart(part, seg) ==
    CASE part.conv = "static" -> seg = part.s
      [] part.conv = "string" -> Len(Chars(seg)) > 0
      [] part.conv = "int" -> IsDigits(seg)
      [] OTHER -> FALSE

\* a whole path against a rule; the path converter takes every remaining
\* segment and needs at least one
MatchRule(rule, path) ==
    IF Len(rule.pattern) = 1 /\ rule.pattern[1].conv = "path"
    THEN Len(path) >= 1
    ELSE /\ Len(path) = Len(rule.pattern)
         /\ \A k \in 1..Len(path) : MatchPart(rule.pattern[k], path[k])

\* the matcher tries static parts first, then converters by weight
PartWeight(part) ==
    CASE part.conv = "static" -> 0
      [] part.conv = "int" -> 50
      [] part.conv = "string" -> 100
      [] OTHER -> 200

\* rule i is tried before rule j
TriedBefore(i, j) ==
    LET a == url_map[i].pattern
        b == url_map[j].pattern
        d == {k \in 1..Min(Len(a), Len(b)) : PartWeight(a[k]) # PartWeight(b[k])}
    IN  IF d = {} THEN i < j
        ELSE LET k == CHOOSE x \in d : \A y \in d : x <= y
             IN  PartWeight(a[k]) < PartWeight(b[k])

\* MapAdapter.match: the first rule tried that matches the path and allows
\* the method; MethodNotAllowed when rules match the path but none allows
\* the method; NotFound when no rule matches the path
Route(method, path) ==
    LET cands == {i \in 1..Len(url_map) : MatchRule(url_map[i], path)}
        ok == {i \in cands : method \in url_map[i].methods}
    IN  IF ok # {}
        THEN url_map[CHOOSE i \in ok : \A j \in ok \ {i} : TriedBefore(i, j)].endpoint
        ELSE IF cands # {} THEN "MethodNotAllowed" ELSE "NotFound"

(***************************************************************************)
(* Outcomes of a view function.                                            *)
(***************************************************************************)
Out(c, status, body) ==
    [ c |-> c, status |-> status, body |-> body, file |-> <<>>, row |-> <<>>,
      rows |-> 0, added |-> 0, unhandled |-> FALSE, rewritten |-> FALSE ]

\* an exception that leaves the view function: Flask answers 500
Raise(c) == [Out(c, 500, "Internal Server Error") EXCEPT !.unhandled = TRUE]

\* conn.cursor()
Cursor(c) == [c EXCEPT !.cursors = @ + 1]
\* cursor.execute(...)
Execute(c) == [c EXCEPT !.executes = @ + 1]

\* request.args.get(name) is None or "" : the parameter is missing
Missing(v) == Len(Chars(v)) = 0

indices == {"HH", "EP", "HSC", "SCL", "WAH"}

\* the static folder: the built bundle holds the entry document, an asset
\* and a file without extension
dist == { <<"index.html">>, <<"app.js">>, <<"about">> }

\* send_from_directory(app.static_folder, filename)
send_from_directory(c, filename) ==
    IF filename \in dist
    THEN [Out(c, 200, "file") EXCEPT !.file = filename]
    ELSE Out(c, 404, "NotFound")

LastSegment(path) == IF Len(path) = 0 THEN "" ELSE path[Len(path)]

\* path.startswith("/api/")
StartsWithApi(path) == Len(path) >= 2 /\ path[1] = "api"

HasDot(seg) == "." \in Range(Chars(seg))

\* not_found with the test for the /api/ prefix left out
not_found_any_prefix(c, r) ==
    IF ~HasDot(LastSegment(r.path))
    THEN [send_from_directory(c, <<"index.html">>) EXCEPT !.rewritten = TRUE]
    ELSE Out(c, 404, "NotFound")

\* the 404 error handler
not_found(c, r) ==
    IF ~HasDot(LastSegment(r.path)) /\ ~StartsWithApi(r.path)
    THEN [send_from_directory(c, <<"index.html">>) EXCEPT !.rewritten = TRUE]
    ELSE Out(c, 404, "NotFound")

(***************************************************************************)
(* The view functions.  c is the request context before the call, r the    *)
(* request.  r.up: the server answers a connect attempt.  r.fault: where   *)
(* the driver raises ("cursor": conn.cursor(); "execute": the statement,   *)
(* the fetch or the conversion of a row; "none": nowhere).  r.hits: the    *)
(* number of GAS rows the statement of a read handler selects.             *)
(***************************************************************************)
get_data_by_date_and_fuente(c0, r) ==
    LET c == get_db(c0, r.up)
    IN  IF Ret(c) = None THEN Out(c, 503, "Database service unavailable")
        ELSE IF Missing(r.args.trade_date) \/ Missing(r.args.fuente)
        THEN Out(c, 400, "Both trade_date and fuente are required")
        ELSE IF r.fault = "cursor" THEN Out(c, 500, "error")
        ELSE IF r.fault = "execute" THEN Out(Execute(Cursor(c)), 500, "error")
        ELSE [Out(Execute(Cursor(c)), 200, "data") EXCEPT !.rows = r.hits]

\* get_matching_dates with the connection acquired and tested first, as the
\* other handlers do
get_matching_dates_conn_first(c0, r) ==
    LET c == get_db(c0, r.up)
    IN  IF Ret(c) = None THEN Out(c, 503, "Database service unavailable")
        ELSE IF r.path[4] \notin indices THEN Out(c, 400, "Invalid indice")
        ELSE IF r.fault = "cursor" THEN Out(c, 500, "error")
        ELSE IF r.fault = "execute" THEN Out(Execute(Cursor(c)), 500, "error")
        ELSE [Out(Execute(Cursor(c)), 200, "availableDates") EXCEPT !.rows = r.hits]

\* view argument indice = r.path[4]
get_matching_dates(c0, r) ==
    IF r.path[4] \notin indices THEN Out(c0, 400, "Invalid indice")
    ELSE LET c == get_db(c0, r.up)
         IN  IF Ret(c) = None THEN Out(c, 503, "Database service unavailable")
             ELSE IF r.fault = "cursor" THEN Out(c, 500, "error")
             ELSE IF r.fault = "execute" THEN Out(Execute(Cursor(c)), 500, "error")
             ELSE [Out(Execute(Cursor(c)), 200, "availableDates")
                      EXCEPT !.rows = r.hits]

\* view arguments indice = r.path[4], trade_date = r.path[5].  With rows
\* selected, the list comprehension reads cursor.description after
\* cursor.close(), which raises inside the try block.
get_gas_data(c0, r) ==
    LET c == get_db(c0, r.up)
    IN  IF Ret(c) = None THEN Out(c, 503, "Database service unavailable")
        ELSE IF r.path[4] \notin indices THEN Out(c, 400, "Invalid indice")
        ELSE IF r.fault = "cursor" THEN Out(c, 500, "Failed to fetch data")
        ELSE IF r.fault = "execute"
        THEN Out(Execute(Cursor(c)), 500, "Failed to fetch data")
        ELSE IF r.hits > 0 THEN Out(Execute(Cursor(c)), 500, "Failed to fetch data")
        ELSE Out(Execute(Cursor(c)), 200, "rows")

\* SELECT TOP 10 ... FROM gas_fee
TopFees == 10

get_all_fees(c0, r) ==
    LET c == get_db(c0, r.up)
    IN  IF Ret(c) = None THEN Out(c, 503, "Database service unavailable")
        ELSE IF r.fault = "cursor" THEN Raise(c)
        ELSE IF r.fault = "execute" THEN Out(Execute(Cursor(c)), 500, "error")
        ELSE [Out(Execute(Cursor(c)), 200, "fees")
                 EXCEPT !.rows = Min(TopFees, Cardinality(gas_fee))]

\* The JSON body: r.body.is_json is request.is_json, r.body.list whether
\* the document is an array, r.body.items its elements ("object" or
\* "string"; data.get raises on a string).
store_data(c0, r) ==
    LET c == get_db(c0, r.up)
        n == Len(r.body.items)
    IN  IF Ret(c) = None THEN Out(c, 503, "Database service unavailable")
        ELSE IF ~r.body.is_json THEN Out(c, 400, "Invalid JSON format")
        ELSE IF r.fault = "cursor" THEN Out(c, 500, "error")
        ELSE IF ~r.body.list THEN Out(Cursor(c), 400, "Expected a list of data objects")
        ELSE IF \E i \in 1..n : r.body.items[i] # "object"
        THEN Out(Cursor(c), 500, "Error processing one of the items")
        ELSE IF n > 0
        THEN IF r.fault = "execute" THEN Out(Execute(Cursor(c)), 500, "error")
             ELSE LET d == Execute(Cursor(c))
                      e == [d EXCEPT !.inserts = @ + 1, !.commits = @ + 1]
                  IN  [Out(conn_close(e, Ret(c)), 201, "Data inserted successfully")
                          EXCEPT !.added = n]
        ELSE Out(Cursor(c), 204, "No data to insert")

(***************************************************************************)
(* The fee lookup statement.  A row of gas_fee is <<volumen, meses>>.      *)
(***************************************************************************)
\* MAX and MIN of SQL: NULL (None) over no rows
SqlMax(vals) == IF vals = {} THEN None ELSE CHOOSE x \in vals : \A y \in vals : y <= x
SqlMin(vals) == IF vals = {} THEN None ELSE CHOOSE x \in vals : \A y \in vals : x <= y

\* the statement with the tenor's floor taken among the rows of the
\* selected volumen tier only
FeeQuery_joint(table, volumen, meses) ==
    LET v == SqlMax({row[1] : row \in {x \in table : x[1] <= volumen}})
        m == SqlMin({row[2] : row \in {x \in table : x[1] = v /\ x[2] >= meses}})
    IN  {row \in table : v # None /\ m # None /\ row[1] = v /\ row[2] = m}

\* the rows the statement selects: two independent subqueries over the
\* whole table; a comparison with NULL selects nothing
FeeQuery(table, volumen, meses) ==
    LET v == SqlMax({row[1] : row \in {x \in table : x[1] <= volumen}})
        m == SqlMin({row[2] : row \in {x \in table : x[2] >= meses}})
    IN  {row \in table : v # None /\ m # None /\ row[1] = v /\ row[2] = m}

\* view argument meses = int(r.path[5]);
\* request.args.get("volumen", type=int) is None when absent or not an int
get_gas_fee(c0, r) ==
    LET c == get_db(c0, r.up)
        meses == IntOf(r.path[5])
        volumen == IF IsDigits(r.args.volumen) THEN IntOf(r.args.volumen) ELSE None
    IN  IF Ret(c) = None THEN Out(c, 503, "Database service unavailable")
        ELSE IF r.fault = "cursor" THEN Raise(c)
        ELSE IF ~IsDigits(r.args.volumen) THEN Out(Cursor(c), 400, "Missing volumen")
        ELSE IF r.fault = "execute" THEN Out(Execute(Cursor(c)), 500, "An error occurred")
        ELSE LET found == FeeQuery(gas_fee, volumen, meses)
             IN  IF found = {}
                 THEN Out(Execute(Cursor(c)), 404, "No matching fee found")
                 ELSE [Out(Execute(Cursor(c)), 200, "fee")
                          EXCEPT !.row = CHOOSE row \in found : TRUE, !.rows = 1]

\* a health check that pings the database
health_check_ping(c0, r) ==
    LET c == get_db(c0, r.up)
    IN  IF Ret(c) = None THEN Out(c, 503, "Database service unavailable")
        ELSE Out(c, 200, "status ok")

health_check(c0, r) == Out(c0, 200, "status ok")

serve_index(c0, r) == send_from_directory(c0, <<"index.html">>)

\* the static view: a missing file raises NotFound, which the 404 error
\* handler answers
static(c0, r) ==
    IF r.path \in dist THEN send_from_directory(c0, r.path) ELSE not_found(c0, r)

(***************************************************************************)
(* Flask.full_dispatch_request: route, run the view, handle the error.     *)
(***************************************************************************)
View(endpoint, c, r) ==
    CASE endpoint = "static" -> static(c, r)
      [] endpoint = "get_data_by_date_and_fuente" -> get_data_by_date_and_fuente(c, r)
      [] endpoint = "get_matching_dates" -> get_matching_dates(c, r)
      [] endpoint = "get_gas_data" -> get_gas_data(c, r)
      [] endpoint = "get_all_fees" -> get_all_fees(c, r)
      [] endpoint = "get_gas_fee" -> get_gas_fee(c, r)
      [] endpoint = "health_check" -> health_check(c, r)
      [] endpoint = "serve_index" -> serve_index(c, r)
      [] endpoint = "NotFound" -> not_found(c, r)
      [] endpoint = "MethodNotAllowed" -> Out(c, 405, "MethodNotAllowed")

Dispatch(c, r) ==
    LET endpoint == Route(r.method, r.path)
    IN  [endpoint |-> endpoint, out |-> View(endpoint, c, r)]

(***************************************************************************)
(* Inputs.                                                                 *)
(***************************************************************************)
\* the environment at startup: every secret set, none set, one missing
Envs ==
    { [n \in EnvNames |-> "secret"],
      [n \in EnvNames |-> Absent],
      [n \in EnvNames |-> IF n = "PASSWORD" THEN Absent ELSE "secret"] }

\* the contents of gas_fee: rows are identified by <<volumen, meses>>
FeeTables ==
    {t \in SUBSET ((1..FeeGrid) \X (1..FeeGrid)) : Cardinality(t) <= MaxFeeRows}

Gas == <<"api", "v1", "gas">>

IndiceSegs == indices \cup {"BOGUS", "hh", "fee"}

Paths ==
    { <<>>, <<"api">>, <<"api", "health">>, <<"api", "unknown">>,
      <<"api", "app.js">>, <<"api", "v1", "unknown">>, Gas,
      <<"dashboard">>, <<"dashboard", "reports">>, <<"v1.2", "reports">>,
      <<"v1.2", "missing.js">>, <<"index.html">>, <<"app.js">>,
      <<"missing.js">>, <<"about">> }
    \cup {Gas \o <<i>> : i \in IndiceSegs}
    \cup {Gas \o <<i, d>> : i \in {"HH", "BOGUS", "fee"}, d \in {"d1", "2"}}

NoArgs == [trade_date |-> Absent, fuente |-> Absent, volumen |-> Absent]

NoBody == [is_json |-> FALSE, list |-> FALSE, items |-> <<>>]

Items == UNION {[1..n -> {"object", "string"}] : n \in 0..MaxItems}

Bodies ==
    {NoBody, [is_json |-> TRUE, list |-> FALSE, items |-> <<>>]}
    \cup {[is_json |-> TRUE, list |-> TRUE, items |-> s] : s \in Items}

Faults == {"none", "cursor", "execute"}

\* method, path, query parameters and body of the requests
Shapes ==
    {[method |-> m, path |-> p, args |-> NoArgs, body |-> NoBody] :
        m \in {"GET", "POST"}, p \in Paths}
    \cup {[method |-> "GET", path |-> Gas,
           args |-> [trade_date |-> t, fuente |-> f, volumen |-> Absent],
           body |-> NoBody] : t \in {Absent, "", "d1"}, f \in {Absent, "", "abc"}}
    \cup {[method |-> "GET", path |-> Gas \o <<"fee", m>>,
           args |-> [trade_date |-> Absent, fuente |-> Absent, volumen |-> v],
           body |-> NoBody] : m \in {"1", "2", "3", "4"},
                              v \in {Absent, "abc", "1", "2", "3", "4", "12"}}
    \cup {[method |-> "POST", path |-> Gas, args |-> NoArgs, body |-> b] :
           b \in Bodies}

\* how the database behaves once connected: where the driver raises and,
\* when it does not, how many GAS rows a read selects.  Only the views under
\* /api/v1/gas reach the database.
Behaviours(p) ==
    IF Len(p) >= 3 /\ SubSeq(p, 1, 3) = Gas
    THEN {<<f, 0>> : f \in Faults} \cup {<<"none", 1>>}
    ELSE {<<"none", 0>>}

Requests ==
    UNION { {[method |-> s.method, path |-> s.path, args |-> s.args,
              body |-> s.body, up |-> u, fault |-> b[1], hits |-> b[2]] :
                u \in BOOLEAN, b \in Behaviours(s.path)} : s \in Shapes }

NoReq ==
    [method |-> "", path |-> <<>>, args |-> NoArgs, body |-> NoBody,
     up |-> FALSE, fault |-> "none", hits |-> 0]

NoResp ==
    [endpoint |-> "", status |-> 0, body |-> "", file |-> <<>>, row |-> <<>>,
     rows |-> 0, unhandled |-> FALSE, rewritten |-> FALSE]

Response(endpoint, o) ==
    [endpoint |-> endpoint, status |-> o.status, body |-> o.body, file |-> o.file,
     row |-> o.row, rows |-> o.rows, unhandled |-> o.unhandled,
     rewritten |-> o.rewritten]

(***************************************************************************)
(* The WSGI application.                                                   *)
(***************************************************************************)
Init ==
    /\ env \in Envs
    /\ gas_fee \in FeeTables
    /\ GAS = 0
    /\ phase = "idle"
    /\ req = NoReq
    /\ ctx = NewCtx
    /\ resp = NoResp

\* one request: a fresh context is pushed, the request is dispatched and
\* the response is produced
Request ==
    /\ phase = "idle"
    /\ \E r \in Requests :
         LET d == Dispatch(NewCtx, r)
         IN  /\ req' = r
             /\ ctx' = d.out.c
             /\ resp' = Response(d.endpoint, d.out)
             /\ GAS' = GAS + d.out.added
    /\ phase' = "responded"
    /\ UNCHANGED <<env, gas_fee>>

\* the application context is popped: teardown_appcontext runs close_db
Teardown ==
    /\ phase \in {"ctx", "responded"}
    /\ ctx' = close_db(ctx)
    /\ phase' = "ended"
    /\ UNCHANGED <<env, gas_fee, GAS, req, resp>>

\* the worker waits for the next request; nothing of the finished request
\* is kept
NextRequest ==
    /\ phase = "ended"
    /\ phase' = "idle"
    /\ req' = NoReq
    /\ ctx' = NewCtx
    /\ resp' = NoResp
    /\ UNCHANGED <<env, gas_fee, GAS>>

Next == Request \/ Teardown \/ NextRequest

Spec == Init /\ [][Next]_vars

(***************************************************************************)
(* The connection manager inside one request context.                      *)
(***************************************************************************)
InitCtx ==
    /\ env \in Envs
    /\ gas_fee = {}
    /\ GAS = 0
    /\ phase = "idle"
    /\ req = NoReq
    /\ ctx = NewCtx
    /\ resp = NoResp

\* a request context is pushed for a POST with some body
PushContext ==
    /\ phase = "idle"
    /\ \E b \in Bodies, u \in BOOLEAN, f \in Faults :
         req' = [method |-> "POST", path |-> Gas, args |-> NoArgs, body |-> b,
                 up |-> u, fault |-> f, hits |-> 0]
    /\ ctx' = NewCtx
    /\ resp' = NoResp
    /\ phase' = "ctx"
    /\ UNCHANGED <<env, gas_fee, GAS>>

\* code running in the context calls get_db()
CallGetDb ==
    /\ phase = "ctx"
    /\ Len(ctx.rets) < MaxCalls
    /\ \E u \in BOOLEAN : ctx' = get_db(ctx, u)
    /\ UNCHANGED <<env, gas_fee, GAS, phase, req, resp>>

\* store_data runs as the view function of the request
RunStoreData ==
    /\ phase = "ctx"
    /\ LET o == store_data(ctx, req)
       IN  /\ GAS + o.added <= MaxGas
           /\ ctx' = o.c
           /\ resp' = Response("store_data", o)
           /\ GAS' = GAS + o.added
    /\ phase' = "responded"
    /\ UNCHANGED <<env, gas_fee, req>>

NextCtx == PushContext \/ CallGetDb \/ RunStoreData \/ Teardown \/ NextRequest

SpecCtx == InitCtx /\ [][NextCtx]_vars

(***************************************************************************)
(* Properties.                                                             *)
(***************************************************************************)
Responded == phase = "responded"
Ended == phase = "ended"

\* every secret was in the environment at startup
Configured == \A n \in EnvNames : env[n] # Absent

\* the connect attempt of the current request succeeds
CanConnect == req.up /\ Configured

Opened == 1..Len(ctx.conns)

\* C1: when a request has ended, every connection get_db opened for it was
\* closed exactly once -- including the request whose view is store_data.
C1_ClosedExactlyOnce ==
    Ended => \A h \in Opened : ctx.closeCalls[h] = 1

\* C2: with none of SERVER, DATABASE, USERNAME, PASSWORD in the environment,
\* get_db returns None and the driver's connect is never invoked.
C2_NoConnectWhenUnconfigured ==
    Unconfigured =>
        /\ ctx.connectCalls = 0
        /\ \A i \in 1..Len(ctx.rets) : ctx.rets[i] = None

IndiceViews == {"get_matching_dates", "get_gas_data"}

InvalidIndice == Responded /\ resp.endpoint \in IndiceViews /\ req.path[4] \notin indices

\* C3 as stated: an indice outside the enumeration is answered 400 by both
\* indice endpoints, whatever the state of the database connection.
C3_Invalid400Always ==
    InvalidIndice => resp.status = 400

\* C3 amended: an indice outside the enumeration is answered 400 by the
\* available-dates endpoint in every connection state, and by the
\* fixed-window endpoint whenever the connection is established; when it is
\* not, the fixed-window endpoint answers 503.
C3_Invalid400WhenConnected ==
    InvalidIndice =>
        /\ resp.endpoint = "get_matching_dates" => resp.status = 400
        /\ resp.endpoint = "get_gas_data" =>
              resp.status = IF CanConnect THEN 400 ELSE 503

C3_Witness ==
    /\ InvalidIndice
    /\ resp.endpoint = "get_gas_data"
    /\ resp.status = 400
    /\ CanConnect

QuoteReadViews == {"get_data_by_date_and_fuente", "get_matching_dates", "get_gas_data"}

\* C4: each quote read handler answers 503 whenever the connection cannot
\* be established, whatever its parameters.
C4_Unavailable503 ==
    (Responded /\ resp.endpoint \in QuoteReadViews /\ ~CanConnect)
        => resp.status = 503

\* a fee lookup that reached the statement and ran it without error
FeeLookupRan ==
    /\ Responded
    /\ resp.endpoint = "get_gas_fee"
    /\ CanConnect
    /\ req.fault = "none"
    /\ IsDigits(req.args.volumen)

KeyVolumen == IntOf(req.args.volumen)
KeyMeses == IntOf(req.path[5])

\* the rows that bracket the key by themselves
Bracketing == {row \in gas_fee : row[1] <= KeyVolumen /\ row[2] >= KeyMeses}

\* C5 as stated: 404 exactly when no row brackets the key; otherwise 200
\* with a bracketing row of the largest volumen and the smallest meses.
C5_NotFoundIffNoBracket ==
    FeeLookupRan =>
        /\ resp.status = 404 <=> Bracketing = {}
        /\ Bracketing # {} =>
              /\ resp.status = 200
              /\ resp.row \in Bracketing
              /\ \A row \in Bracketing : row[1] <= resp.row[1]

\* the largest volumen of the table that does not exceed the key, and the
\* smallest meses of the table that is not less than the key
FloorVolumen(x) ==
    /\ \E row \in gas_fee : row[1] = x
    /\ x <= KeyVolumen
    /\ \A row \in gas_fee : row[1] <= KeyVolumen => row[1] <= x
CeilMeses(x) ==
    /\ \E row \in gas_fee : row[2] = x
    /\ x >= KeyMeses
    /\ \A row \in gas_fee : row[2] >= KeyMeses => row[2] >= x

\* C5 amended: 404 exactly when no row carries both the floor volumen and
\* the ceiling meses, each taken over the whole table; otherwise 200 with
\* such a row.
C5_NotFoundIffNoFloorCeilRow ==
    FeeLookupRan =>
        LET hit == {row \in gas_fee : FloorVolumen(row[1]) /\ CeilMeses(row[2])}
        IN  /\ resp.status = 404 <=> hit = {}
            /\ hit # {} => (resp.status = 200 /\ resp.row \in hit)

C5_Witness ==
    /\ FeeLookupRan
    /\ resp.status = 200
    /\ resp.row[1] < KeyVolumen
    /\ resp.row[2] > KeyMeses
    /\ Cardinality(gas_fee) = 2

EmptyArray == [is_json |-> TRUE, list |-> TRUE, items |-> <<>>]

\* C6: POST /api/v1/gas with an empty array and the database available is
\* dispatched to the ingestion logic and answered 204, with no INSERT
\* executed and nothing committed.
C6_EmptyArray204 ==
    (Responded /\ req.method = "POST" /\ req.path = Gas /\ req.body = EmptyArray
       /\ CanConnect /\ req.fault = "none")
        => /\ resp.endpoint = "store_data"
           /\ resp.status = 204
           /\ ctx.inserts = 0
           /\ ctx.commits = 0
           /\ GAS = 0

\* C7: GET /api/v1/gas/fee with the database available and the query
\* succeeding is dispatched to the fee list handler and answered 200 with at
\* most 10 fee rows, never by the indice route.
C7_FeeList200 ==
    (Responded /\ req.method = "GET" /\ req.path = Gas \o <<"fee">>
       /\ CanConnect /\ req.fault = "none")
        => /\ resp.endpoint = "get_all_fees"
           /\ resp.status = 200
           /\ resp.body = "fees"
           /\ resp.rows <= TopFees

\* C8: in one request context there is at most one connect attempt, every
\* get_db call returns what the first one returned (the same handle, open
\* while the context's code runs, or None with no retry), never two
\* connections are open, and a context that opened no connection makes no
\* close call at teardown.
C8_OneConnectionPerRequest ==
    /\ ctx.connectCalls <= 1
    /\ \A i \in 1..Len(ctx.rets) : ctx.rets[i] = ctx.rets[1]
    /\ Cardinality({h \in Opened : ctx.conns[h] = "open"}) <= 1
    /\ Len(ctx.conns) <= ctx.connectCalls
    /\ (phase = "ctx" /\ ctx.rets # <<>> /\ ctx.rets[1] # None)
          => ctx.conns[ctx.rets[1]] = "open"
    /\ (Ended /\ ctx.conns = <<>>) => ctx.closes = 0

C8_Witness ==
    /\ Ended
    /\ Len(ctx.rets) >= 3
    /\ ctx.rets[1] # None
    /\ ctx.connectCalls = 1
    /\ ctx.closeCalls = <<1>>
    /\ resp.status = 204

\* C9: a GET for a path outside /api/ whose last segment has no dot, that
\* only the static rule matches and that is no file of the bundle, is
\* answered 200 with the entry document; a path under /api/ or with a dot in
\* its last segment is never rewritten: a missing asset and an unmatched API
\* path are answered 404, /api/v1/gas/BOGUS 400.
C9_SpaFallback ==
    (Responded /\ req.method = "GET") =>
        /\ (~StartsWithApi(req.path) /\ ~HasDot(LastSegment(req.path))
              /\ resp.endpoint = "static" /\ req.path \notin dist)
             => (resp.status = 200 /\ resp.file = <<"index.html">>)
        /\ (StartsWithApi(req.path) \/ HasDot(LastSegment(req.path)))
             => /\ ~resp.rewritten
                /\ resp.file = <<"index.html">> => req.path = <<"index.html">>
                /\ (resp.endpoint = "static" /\ req.path \notin dist)
                      => resp.status = 404
                /\ req.path = Gas \o <<"BOGUS">> => resp.status = 400

C9_Witness ==
    /\ Responded
    /\ req.method = "GET"
    /\ req.path = <<"dashboard", "reports">>
    /\ resp.rewritten
    /\ resp.status = 200
    /\ resp.file = <<"index.html">>

\* C10: GET /api/health is answered 200 with the fixed body in every
\* database state, and handling it, teardown included, never opens, uses or
\* closes a database connection.
C10_HealthNeverTouchesDb ==
    (phase \in {"responded", "ended"} /\ req.method = "GET"
       /\ req.path = <<"api", "health">>)
        => /\ resp.endpoint = "health_check"
           /\ resp.status = 200
           /\ resp.body = "status ok"
           /\ ctx.rets = <<>>
           /\ ctx.connectCalls = 0
           /\ ctx.conns = <<>>
           /\ ctx.cursors = 0
           /\ ctx.executes = 0
           /\ ctx.closes = 0

C10_Witness ==
    /\ Ended
    /\ req.method = "GET"
    /\ req.path = <<"api", "health">>
    /\ ~CanConnect
    /\ resp.status = 200

====
